---- MODULE Spec2Model ----
(***************************************************************************)
(* A state-machine model of ic_light_nodes.py: the ICLight.apply node      *)
(* (clone, conditioning projection, forward-wrapper chain, weight patches) *)
(* and the VAEEncodeArgMax.encode node (scoped override of the sampling    *)
(* flag).                                                                  *)
(*                                                                         *)
(* Tensors are sequences: a latent of shape (B, C, H, W) is a sequence of  *)
(* B batch entries, each a sequence of C channels, each a sequence of the  *)
(* H*W pixels of the plane.  Device moves (.to(device)) copy the values    *)
(* unchanged and are not represented.                                      *)
(***************************************************************************)
EXTENDS Integers, Sequences, FiniteSets, TLC

\* ---------------------------------------------------------------- bounds
MaxB0 == 2
MaxBatch == 2
NumPixels == 2
\* the latent format's channel count ("[B, 4, H, W]")
NumChannels == 4

Vals == {0, 1}
ScaleFactors == {2, 3}

\* The model handles (ModelPatcher objects) that can exist: the two inputs
\* of the workflow and the clones that ICLight.apply creates, in the order
\* in which they are allocated.
Handles == {"base", "aux", "w1", "w2"}
FreshOrder == <<"w1", "w2">>
Vaes == {"vae1", "vae2"}

ParamNames == {"input_blocks.0.0.weight", "input_blocks.0.0.bias", "out.2.weight"}

VARIABLES
  handles,    \* handle name -> ModelPatcher overlay, or Free
  models,     \* underlying networks: "M" (base) and "A" (auxiliary)
  pc,         \* position of the running ICLight.apply call ("idle": none)
  frame,      \* locals of the running ICLight.apply call
  ret,        \* outcome of the most recent apply or forward call
  entry,      \* history: handles and models when apply was last entered
  installed,  \* history: handle -> stage ids in order of installation
  applied,    \* history: handle -> arguments of the apply that returned it
  remembered, \* history: one earlier forward call, kept for comparison
  vaes,       \* vae name -> [isKL, sample]
  encPc,      \* position of the running VAEEncodeArgMax.encode call
  encFrame,   \* locals of the running encode call
  encRet,     \* outcome of the most recent encode call
  vaes0       \* history: vaes when encode was last entered

vars == <<handles, models, pc, frame, ret, entry, installed, applied,
          remembered, vaes, encPc, encFrame, encRet, vaes0>>
iclVars == <<handles, models, pc, frame, ret, entry, installed, applied, remembered>>
encVars == <<vaes, encPc, encFrame, encRet, vaes0>>

\* ------------------------------------------------------------- tensors
NoTensor == <<>>

\* Raw latents: entry (k, c, p) carries its own coordinates, so that any
\* change of layout changes the tensor.
RawLatent(b0, v) ==
  [k \in 1..b0 |-> [c \in 1..NumChannels |-> [p \in 1..NumPixels |->
      v + 100 * k + 10 * c + p]]]

Latents == {RawLatent(b0, v) : b0 \in 1..MaxB0, v \in Vals}

\* The LATENT records a workflow can pass: with or without "samples".
LatentRecords ==
  {[samples |-> t] : t \in Latents} \cup {[noise_mask |-> NoTensor]}

Shape0(t) == Len(t)

\* c_concat["samples"] * scale_factor (line 96)
Scale(t, s) ==
  [k \in 1..Len(t) |-> [c \in 1..Len(t[k]) |-> [p \in 1..Len(t[k][c]) |->
      t[k][c][p] * s]]]

RECURSIVE CatChannels(_)
\* torch.cat(parts, dim=1) of tensors of batch size 1
CatChannels(parts) ==
  IF Len(parts) = 1 THEN parts[1]
  ELSE <<parts[1][1] \o CatChannels(Tail(parts))[1]>>

\* torch.cat([c[None, ...] for c in concat_conds], dim=1)   (line 98)
BatchToChannels(t) == CatChannels([k \in 1..Len(t) |-> <<t[k]>>])

ProjectChannelMajor(samples, scale_factor) ==
  LET t == Scale(samples, scale_factor)
  IN  <<[j \in 1..(Len(t) * Len(t[1])) |->
          t[((j - 1) % Len(t)) + 1][((j - 1) \div Len(t)) + 1]]>>

\* lines 93-98: the precomputed conditioning tensor
Project(samples, scale_factor) == BatchToChannels(Scale(samples, scale_factor))

RECURSIVE CatBatch(_)
\* torch.cat(parts, dim=0); an empty list of parts is an error in torch
CatBatch(parts) ==
  IF Len(parts) = 1 THEN parts[1] ELSE parts[1] \o CatBatch(Tail(parts))

\* [x] * n
Repeat(x, n) == [i \in 1..n |-> x]


\* --------------------------------------------------- weights and patches
Free == [kind |-> "free"]
Exists(hs, h) == hs[h].kind # "free"

\* a network's diffusion_model.state_dict(): parameter name -> tensor
StateDict(keys, tag) == [k \in keys |-> [data |-> <<tag, k>>, dtype |-> "float32"]]

\* comfy.model_management.unet_dtype()
unet_dtype == "float16"

\* value.to(dtype=dtype, device=device)   (line 128)
To(t, dtype) == [t EXCEPT !.dtype = dtype]

\* lines 127-130
ic_model_state_dict(sd) == [key \in DOMAIN sd |-> To(sd[key], unet_dtype)]

pad_weight_bias(key) == key = "input_blocks.0.0.bias"

\* line 137
pad_weight(key) == key = "input_blocks.0.0.weight"

\* lines 132-141: the patches argument of add_patches
PatchDict(sd) ==
  [pk \in {"diffusion_model." \o key : key \in DOMAIN sd} |->
     LET key == CHOOSE k \in DOMAIN sd : "diffusion_model." \o k = pk
     IN  <<"diff", <<sd[key], [pad_weight |-> pad_weight(key)]>>>>]

\* dict.get(key, default)
Get(d, key, default) == IF key \in DOMAIN d THEN d[key] ELSE default

\* d[key] = val
Put(d, key, val) == [k \in DOMAIN d \cup {key} |-> IF k = key THEN val ELSE d[k]]

\* ModelPatcher.add_patches: each patch is appended to the list kept under
\* its key (line 131)
add_patches(patches, new) ==
  [k \in DOMAIN patches \cup DOMAIN new |->
     IF k \in DOMAIN new THEN Append(Get(patches, k, <<>>), new[k]) ELSE patches[k]]

\* ------------------------------------------------------ forward wrappers
\* line 112-115: the endpoint of the wrapper chain
unet_dummy_apply == [kind |-> "unet_dummy_apply"]

\* a wrapper some other node stored in the slot before ICLight.apply ran;
\* it follows the slot's protocol: its own pre-processing, then unet_apply
ForeignWrapper == [kind |-> "foreign"]

\* lines 122-123: the closure over concat_conds and existing_wrapper;
\* owner names the apply call (by its clone) that created the closure
wrapper_func(owner, concat_conds, existing_wrapper) ==
  [kind |-> "wrapper_func", owner |-> owner, concat_conds |-> concat_conds,
   existing_wrapper |-> existing_wrapper]

existing_wrapper_dropped(model_options) == unet_dummy_apply

\* lines 118-120
existing_wrapper(model_options) ==
  Get(model_options, "model_function_wrapper", unet_dummy_apply)

\* work_model.set_model_unet_function_wrapper(wrapper_func)   (line 125)
set_model_unet_function_wrapper(model_options, w) ==
  Put(model_options, "model_function_wrapper", w)

apply_c_concat_notile(concat_conds, params) ==
  [params EXCEPT !.c = Put(@, "c_concat", concat_conds)]

apply_c_concat_rawbatch(concat_conds, params) ==
  LET b0 == Len(concat_conds[1]) \div NumChannels
      n  == params.input.shape0 \div b0
  IN  [params EXCEPT !.c = Put(@, "c_concat",
         IF n = 0 THEN NoTensor ELSE CatBatch(Repeat(concat_conds, n)))]

apply_c_concat_setdefault(concat_conds, params) ==
  IF "c_concat" \in DOMAIN params.c THEN params
  ELSE [params EXCEPT !.c = Put(@, "c_concat",
         CatBatch(Repeat(concat_conds, params.input.shape0 \div Shape0(concat_conds))))]

apply_c_concat_append(concat_conds, params) ==
  LET tiled == CatBatch(Repeat(concat_conds, params.input.shape0 \div Shape0(concat_conds)))
  IN  [params EXCEPT !.c = Put(@, "c_concat", Get(@, "c_concat", NoTensor) \o tiled)]

\* lines 100-110
apply_c_concat(concat_conds, params) ==
  [params EXCEPT !.c = Put(@, "c_concat",
     CatBatch(Repeat(concat_conds, params.input.shape0 \div Shape0(concat_conds))))]

\* the native forward function: unet_apply(x=..., t=..., **params["c"]);
\* the trace counts the call and keeps the conditioning it received
unet_apply(params, tr) == [tr EXCEPT !.native = Append(@, params.c)]

Enter(tr, stage, injected) ==
  [tr EXCEPT !.log = Append(@, [stage |-> stage, injected |-> injected])]

RECURSIVE Invoke(_, _, _)
\* calling a wrapper w(unet_apply, params): lines 115 and 123
Invoke(w, params, tr) ==
  CASE w.kind = "unet_dummy_apply" -> unet_apply(params, tr)
    [] w.kind = "foreign" -> unet_apply(params, Enter(tr, "pre", NoTensor))
    [] w.kind = "wrapper_func" ->
         LET p2 == apply_c_concat(w.concat_conds, params)
         IN  Invoke(w.existing_wrapper, p2, Enter(tr, w.owner, p2.c["c_concat"]))

EmptyTrace == [log |-> <<>>, native |-> <<>>]

\* one denoising step of the host sampler on handle h: the wrapper in the
\* slot is called if there is one, the native forward otherwise
RunForward(h, params) ==
  IF "model_function_wrapper" \in DOMAIN h.model_options
  THEN Invoke(h.model_options["model_function_wrapper"], params, EmptyTrace)
  ELSE unet_apply(params, EmptyTrace)

\* ---------------------------------------------------------------- clone
FreeSlots(hs) == {i \in 1..Len(FreshOrder) : ~Exists(hs, FreshOrder[i])}
Fresh(hs) == FreshOrder[CHOOSE i \in FreeSlots(hs) : \A j \in FreeSlots(hs) : i <= j]

CloneAlias(hs, m) == [name |-> m, handles |-> hs]

\* work_model = model.clone()   (line 90): a new ModelPatcher with its own
\* patches and model_options and the same underlying network
Clone(hs, m) ==
  [name |-> Fresh(hs), handles |-> [hs EXCEPT ![Fresh(hs)] = hs[m]]]


\* ------------------------------------------------------------ the state
NoFrame == [model |-> "none", ic_model |-> "none", c_concat |-> [none |-> NoTensor],
            work_model |-> "none", concat_conds |-> NoTensor]
NoCall == [kind |-> "none"]
NoArgs == [kind |-> "none"]
NoEncFrame == [vae |-> "none", original_sample_mode |-> FALSE]

Patcher(model, wrapperSlot) ==
  [kind |-> "patcher", model |-> model, patches |-> <<>>, model_options |-> wrapperSlot]

\* the model_options a checkpoint is loaded with, before and after another
\* node has stored its wrapper
WrapperSlots == {<<>>, [model_function_wrapper |-> ForeignWrapper]}

\* the parameters of the auxiliary checkpoints: every UNet has the input
\* projection; the other parameters vary with the architecture
AuxKeySets == {ParamNames, ParamNames \ {"out.2.weight"}}

Images == {"img1", "img2"}

FixedVaes == [v \in Vaes |-> [isKL |-> TRUE, sample |-> TRUE]]

InitEncFixed ==
  /\ vaes = FixedVaes
  /\ vaes0 = FixedVaes
  /\ encPc = "idle"
  /\ encFrame = NoEncFrame
  /\ encRet = NoCall

InitICL(scales, slots, auxKeys) ==
  /\ \E s \in scales, slot \in slots, ks \in auxKeys :
       /\ handles = [h \in Handles |->
            CASE h = "base" -> Patcher("M", slot)
              [] h = "aux" -> Patcher("A", <<>>)
              [] OTHER -> Free]
       /\ models = [M |-> [scale_factor |-> s, diffusion_model |-> StateDict(ParamNames, "M")],
                    A |-> [scale_factor |-> s, diffusion_model |-> StateDict(ks, "A")]]
       /\ installed = [h \in Handles |->
            IF h = "base" /\ slot # <<>> THEN <<"pre">> ELSE <<>>]
  /\ entry = [handles |-> handles, models |-> models]
  /\ pc = "idle"
  /\ frame = NoFrame
  /\ ret = NoCall
  /\ applied = [h \in Handles |-> NoArgs]
  /\ remembered = NoCall

Init == InitICL(ScaleFactors, WrapperSlots, AuxKeySets) /\ InitEncFixed

\* ------------------------------------------------------- ICLight.apply
ApplyEnterCloneFirst(m, ic, c) ==
  /\ pc = "idle"
  /\ Exists(handles, m) /\ Exists(handles, ic)
  /\ FreeSlots(handles) # {}
  /\ entry' = [handles |-> handles, models |-> models]
  /\ handles' = Clone(handles, m).handles
  /\ installed' = [installed EXCEPT ![Clone(handles, m).name] = installed[m]]
  /\ IF "samples" \notin DOMAIN c
     THEN /\ ret' = [kind |-> "KeyError"]
          /\ UNCHANGED <<pc, frame>>
     ELSE /\ ret' = [kind |-> "running"]
          /\ pc' = "project"
          /\ frame' = [NoFrame EXCEPT !.model = m, !.ic_model = ic, !.c_concat = c,
                                      !.work_model = Clone(handles, m).name]
  /\ UNCHANGED <<models, applied, remembered>>

\* lines 85-86: the field check; a call that passes it goes on to clone
ApplyEnter(m, ic, c) ==
  /\ pc = "idle"
  /\ Exists(handles, m) /\ Exists(handles, ic)
  /\ entry' = [handles |-> handles, models |-> models]
  /\ IF "samples" \notin DOMAIN c
     THEN /\ ret' = [kind |-> "KeyError"]
          /\ UNCHANGED <<pc, frame>>
     ELSE /\ FreeSlots(handles) # {}
          /\ ret' = [kind |-> "running"]
          /\ pc' = "clone"
          /\ frame' = [NoFrame EXCEPT !.model = m, !.ic_model = ic, !.c_concat = c]
  /\ UNCHANGED <<handles, models, installed, applied, remembered>>

\* line 90
ApplyClone ==
  /\ pc = "clone"
  /\ LET r == Clone(handles, frame.model)
     IN  /\ handles' = r.handles
         /\ frame' = [frame EXCEPT !.work_model = r.name]
         /\ installed' = [installed EXCEPT ![r.name] = installed[frame.model]]
  /\ pc' = "project"
  /\ UNCHANGED <<models, ret, entry, applied, remembered>>

\* lines 93-98
ApplyProject ==
  /\ pc = "project"
  /\ LET base_model == models[handles[frame.work_model].model]
     IN  frame' = [frame EXCEPT !.concat_conds =
                     Project(frame.c_concat.samples, base_model.scale_factor)]
  /\ pc' = "wrap"
  /\ UNCHANGED <<handles, models, ret, entry, installed, applied, remembered>>

\* lines 117-125
ApplyWrap ==
  /\ pc = "wrap"
  /\ LET w  == frame.work_model
         mo == handles[w].model_options
         f  == wrapper_func(w, frame.concat_conds, existing_wrapper(mo))
     IN  /\ handles' = [handles EXCEPT ![w].model_options =
                          set_model_unet_function_wrapper(mo, f)]
         /\ installed' = [installed EXCEPT ![w] = Append(@, w)]
  /\ pc' = "patch"
  /\ UNCHANGED <<models, frame, ret, entry, applied, remembered>>

\* lines 127-148: the local copy of the auxiliary weights is built, handed
\* to add_patches and cleared; the auxiliary network keeps its own mapping
ApplyPatch ==
  /\ pc = "patch"
  /\ LET w  == frame.work_model
         sd == ic_model_state_dict(models[handles[frame.ic_model].model].diffusion_model)
     IN  handles' = [handles EXCEPT ![w].patches = add_patches(@, PatchDict(sd))]
  /\ pc' = "return"
  /\ UNCHANGED <<models, frame, ret, entry, installed, applied, remembered>>

\* line 150
ApplyReturn ==
  /\ pc = "return"
  /\ ret' = [kind |-> "model", handle |-> frame.work_model]
  /\ applied' = [applied EXCEPT ![frame.work_model] =
                   [kind |-> "apply", model |-> frame.model, ic_model |-> frame.ic_model,
                    samples |-> frame.c_concat.samples]]
  /\ pc' = "idle"
  /\ frame' = NoFrame
  /\ UNCHANGED <<handles, models, entry, installed, remembered>>

\* ------------------------------------------------------ a forward call
Txt == <<<<<<7>>>>>>
Stale == <<<<<<9>>>>>>

\* the conditioning mappings a sampler passes: without and with a c_concat
\* entry of its own
CallConds == {[c_crossattn |-> Txt], [c_crossattn |-> Txt, c_concat |-> Stale]}

\* one denoising step through handle h with a live input of batch size B;
\* keep says whether the call is kept in remembered, to be compared with
\* later calls
Forward(h, B, c, keep) ==
  /\ pc = "idle"
  /\ Exists(handles, h)
  /\ LET tr   == RunForward(handles[h], [input |-> [shape0 |-> B], c |-> c])
         call == [kind |-> "forward", handle |-> h, B |-> B, c0 |-> c,
                  log |-> tr.log, native |-> tr.native]
     IN  /\ ret' = call
         /\ remembered' = IF keep
                          THEN [kind |-> "forward", handle |-> h, B |-> B, log |-> tr.log]
                          ELSE remembered
  /\ UNCHANGED <<handles, models, pc, frame, entry, installed, applied>>

\* ------------------------------------------- VAEEncodeArgMax.encode
\* lines 24-29: the assertion, the read of the flag and the override
EncodeEnter(v, pixels) ==
  /\ encPc = "idle"
  /\ vaes0' = vaes
  /\ IF ~vaes[v].isKL
     THEN /\ encRet' = [kind |-> "AssertionError", vae |-> v]
          /\ UNCHANGED <<vaes, encPc, encFrame>>
     ELSE /\ encFrame' = [vae |-> v, original_sample_mode |-> vaes[v].sample]
          /\ vaes' = [vaes EXCEPT ![v].sample = FALSE]
          /\ encPc' = "delegate"
          /\ encRet' = [kind |-> "running", vae |-> v, pixels |-> pixels]

EncodeRaiseNoRestore ==
  /\ encPc = "delegate"
  /\ encRet' = [kind |-> "error", vae |-> encFrame.vae]
  /\ encPc' = "idle"
  /\ encFrame' = NoEncFrame
  /\ UNCHANGED <<vaes, vaes0>>

\* lines 30-33: super().encode returns; the finally clause restores the
\* flag; the latent is the mode of the distribution when sample is False
EncodeReturn ==
  /\ encPc = "delegate"
  /\ encRet' = [kind |-> "ok", vae |-> encFrame.vae, pixels |-> encRet.pixels,
                latent |-> IF vaes[encFrame.vae].sample THEN "sampled" ELSE "mode"]
  /\ vaes' = [vaes EXCEPT ![encFrame.vae].sample = encFrame.original_sample_mode]
  /\ encPc' = "idle"
  /\ encFrame' = NoEncFrame
  /\ UNCHANGED vaes0

\* lines 30-32: super().encode raises; the finally clause restores the flag
\* and the exception propagates
EncodeRaise ==
  /\ encPc = "delegate"
  /\ encRet' = [kind |-> "error", vae |-> encFrame.vae]
  /\ vaes' = [vaes EXCEPT ![encFrame.vae].sample = encFrame.original_sample_mode]
  /\ encPc' = "idle"
  /\ encFrame' = NoEncFrame
  /\ UNCHANGED vaes0

\* ------------------------------------------------------ specifications
\* the handles a sampler or a further apply works on: the base model and
\* the clones made of it
BaseHandles == Handles \ {"aux"}

ApplySteps(records) ==
  \/ \E m \in BaseHandles, ic \in {"aux"}, c \in records :
       ApplyEnter(m, ic, c) /\ UNCHANGED encVars
  \/ ApplyClone /\ UNCHANGED encVars
  \/ ApplyProject /\ UNCHANGED encVars
  \/ ApplyWrap /\ UNCHANGED encVars
  \/ ApplyPatch /\ UNCHANGED encVars
  \/ ApplyReturn /\ UNCHANGED encVars

Next ==
  \/ ApplySteps(LatentRecords)
  \/ \E h \in BaseHandles, B \in 1..MaxBatch, c \in CallConds :
       Forward(h, B, c, FALSE) /\ UNCHANGED encVars

Spec == Init /\ [][Next]_vars

\* the same program with one scale factor, one auxiliary checkpoint and one
\* latent of each batch size, and with forward calls that may be remembered
FewLatentRecords ==
  {[samples |-> RawLatent(b0, 0)] : b0 \in 1..MaxB0} \cup {[noise_mask |-> NoTensor]}

InitCalls == InitICL({2}, WrapperSlots, {ParamNames}) /\ InitEncFixed

NextCalls ==
  \/ ApplySteps(FewLatentRecords)
  \/ \E h \in BaseHandles, B \in 1..MaxBatch, c \in CallConds, keep \in BOOLEAN :
       Forward(h, B, c, keep) /\ UNCHANGED encVars

SpecCalls == InitCalls /\ [][NextCalls]_vars

InitEncode ==
  /\ InitICL({2}, {<<>>}, {ParamNames})
  /\ vaes \in [Vaes -> [isKL : BOOLEAN, sample : BOOLEAN]]
  /\ vaes0 = vaes
  /\ encPc = "idle"
  /\ encFrame = NoEncFrame
  /\ encRet = NoCall

NextEncode ==
  \/ \E v \in Vaes, pixels \in Images : EncodeEnter(v, pixels) /\ UNCHANGED iclVars
  \/ EncodeReturn /\ UNCHANGED iclVars
  \/ EncodeRaise /\ UNCHANGED iclVars

SpecEncode == InitEncode /\ [][NextEncode]_vars


\* ------------------------------------------------------------ properties
Reverse(q) == [i \in 1..Len(q) |-> q[Len(q) + 1 - i]]
StageIds(log) == [i \in 1..Len(log) |-> log[i].stage]
IsApplied(h) == applied[h].kind = "apply"

\* the conditioning tensor kept by the stage that the apply call returning
\* handle h installed
StageConds(h) == handles[h].model_options["model_function_wrapper"].concat_conds

\* the stages of a logged call that ICLight.apply installed
ICLightEntries(log) == {i \in 1..Len(log) : log[i].stage # "pre"}

\* channel j (from 1) of the expected conditioning tensor: batch entry
\* (j-1) div C, channel (j-1) mod C of the raw latent, times s
ExpectedSlice(raw, s) ==
  [j \in 1..(Len(raw) * NumChannels) |->
     [p \in 1..NumPixels |->
        raw[((j - 1) \div NumChannels) + 1][((j - 1) % NumChannels) + 1][p] * s]]

ScaleOf(h) == models[handles[h].model].scale_factor

\* C1: a forward call runs the installed stages in reverse order of
\* installation (the latest first, a wrapper found in the slot last) and
\* then calls the native forward exactly once.
C1_ReverseOrderOneNativeCall ==
  ret.kind = "forward" =>
    /\ StageIds(ret.log) = Reverse(installed[ret.handle])
    /\ Len(ret.native) = 1

C1_Witness ==
  /\ ret.kind = "forward"
  /\ installed[ret.handle] = <<"pre", "w1", "w2">>
  /\ StageIds(ret.log) = <<"w2", "w1", "pre">>

\* C2: every handle that existed when apply was entered, and every
\* network's weight mapping and configuration, is as it was on entry; a
\* forward call through the base handle hands the native forward the
\* caller's own conditioning mapping.
C2_OriginalsUntouched ==
  /\ \A h \in Handles : Exists(entry.handles, h) => handles[h] = entry.handles[h]
  /\ models = entry.models
  /\ (ret.kind = "forward" /\ ret.handle = "base") => ret.native = <<ret.c0>>

C2_Witness ==
  /\ ret.kind = "forward" /\ ret.handle = "base"
  /\ IsApplied("w1") /\ applied["w1"].model = "base"
  /\ handles["w1"] # handles["base"]

\* C3: no call whose conditioning record lacks 'samples' gets past the
\* field check, and the step that raises the missing-field error changes no
\* handle, network or local and returns no handle.
C3_MissingFieldNoEffect ==
  /\ [](pc # "idle" => "samples" \in DOMAIN frame.c_concat)
  /\ [][(pc = "idle" /\ ret'.kind = "KeyError") =>
          (/\ handles' = handles /\ models' = models /\ installed' = installed
           /\ applied' = applied /\ pc' = "idle" /\ frame' = NoFrame)]_vars

C3_Witness ==
  /\ ret.kind = "KeyError"
  /\ IsApplied("w1")

\* C4: the clone returned by apply holds, for each parameter of the
\* auxiliary diffusion sub-network, exactly one patch more than the handle
\* it was cloned from, under the parameter's name prefixed with
\* 'diffusion_model.'; the patch is a 'diff' patch whose pad_weight is true
\* for 'input_blocks.0.0.weight' alone; no other key is touched.
C4_PatchSet ==
  \A h \in Handles : IsApplied(h) =>
    LET a      == applied[h]
        sd     == models[handles[a.ic_model].model].diffusion_model
        before == handles[a.model].patches
        after  == handles[h].patches
        added(k) == after["diffusion_model." \o k][Len(Get(before, "diffusion_model." \o k, <<>>)) + 1]
    IN  /\ DOMAIN after = DOMAIN before \cup {"diffusion_model." \o k : k \in DOMAIN sd}
        /\ \A k \in DOMAIN sd :
             LET pk  == "diffusion_model." \o k
                 old == Get(before, pk, <<>>)
             IN  /\ Len(after[pk]) = Len(old) + 1
                 /\ SubSeq(after[pk], 1, Len(old)) = old
                 /\ added(k)[1] = "diff"
                 /\ added(k)[2][1].data = sd[k].data
                 /\ added(k)[2][2].pad_weight = (k = "input_blocks.0.0.weight")
        /\ Cardinality({k \in DOMAIN sd : added(k)[2][2].pad_weight}) = 1
        /\ "input_blocks.0.0.bias" \in DOMAIN sd =>
             ~added("input_blocks.0.0.bias")[2][2].pad_weight
        /\ \A pk \in DOMAIN before :
             pk \notin {"diffusion_model." \o k : k \in DOMAIN sd} => after[pk] = before[pk]

C4_Witness ==
  /\ IsApplied("w2") /\ applied["w2"].model = "w1"
  /\ Len(handles["w2"].patches["diffusion_model.input_blocks.0.0.weight"]) = 2

\* C5: the tensor an ICLight stage stores under 'c_concat' has the batch
\* size of the live input, and each of its batch slices is the single slice
\* of the stage's precomputed tensor.
C5_Broadcast ==
  ret.kind = "forward" =>
    \A i \in ICLightEntries(ret.log) :
      LET cc  == StageConds(ret.log[i].stage)
          inj == ret.log[i].injected
      IN  /\ Len(cc) = 1
          /\ Len(inj) = ret.B
          /\ \A b \in 1..ret.B : inj[b] = cc[1]

C5_Witness ==
  /\ ret.kind = "forward" /\ ret.B = MaxBatch
  /\ ICLightEntries(ret.log) # {}
  /\ "c_concat" \in DOMAIN ret.native[1]
  /\ Len(ret.native[1]["c_concat"]) = MaxBatch

\* C6 as claimed: when B is a multiple of the raw batch size B0, the
\* precomputed tensor is tiled B / B0 times.
C6_TiledByRawBatch ==
  ret.kind = "forward" =>
    \A i \in ICLightEntries(ret.log) :
      LET b0 == Len(applied[ret.log[i].stage].samples)
      IN  ret.B % b0 = 0 =>
            ret.log[i].injected = CatBatch(Repeat(StageConds(ret.log[i].stage), ret.B \div b0))

\* C6 as amended: the precomputed tensor, whose batch size is 1 whatever
\* B0 was, is tiled B times.
C6_TiledByLiveBatch ==
  ret.kind = "forward" =>
    \A i \in ICLightEntries(ret.log) :
      LET cc == StageConds(ret.log[i].stage)
      IN  /\ ret.log[i].injected = CatBatch(Repeat(cc, ret.B))
          /\ Len(ret.log[i].injected) = ret.B * Len(cc)

C6_Witness ==
  /\ ret.kind = "forward" /\ ret.B = 2
  /\ \E i \in ICLightEntries(ret.log) :
       /\ Len(applied[ret.log[i].stage].samples) = 2
       /\ Len(ret.log[i].injected) = 2

\* C7: the precomputed tensor of a raw latent of shape (B0, C, H, W) has
\* shape (1, C*B0, H, W), and its channel k*C + c is batch entry k, channel
\* c of the raw latent times the clone's scale factor.
C7_ScaleLayout ==
  \A h \in Handles : IsApplied(h) =>
    LET raw == applied[h].samples
        cc  == StageConds(h)
    IN  /\ Len(cc) = 1
        /\ Len(cc[1]) = NumChannels * Len(raw)
        /\ \A j \in 1..Len(cc[1]) : Len(cc[1][j]) = NumPixels
        /\ \A k \in 0..(Len(raw) - 1), c \in 0..(NumChannels - 1), p \in 1..NumPixels :
             cc[1][k * NumChannels + c + 1][p] = raw[k + 1][c + 1][p] * ScaleOf(h)

C7_Witness ==
  \E h \in Handles :
    /\ IsApplied(h)
    /\ Len(applied[h].samples) = 2
    /\ Len(StageConds(h)[1]) = 2 * NumChannels

\* C8: a forward call changes no handle (so no precomputed tensor), and two
\* calls through the same handle with the same batch size log the same
\* injected tensors, whatever the calls' own conditioning mappings held and
\* whatever was called in between.
C8_NoAccumulation ==
  /\ []((ret.kind = "forward" /\ remembered.kind = "forward"
          /\ ret.handle = remembered.handle /\ ret.B = remembered.B)
         => ret.log = remembered.log)
  /\ [][ret'.kind = "forward" => (handles' = handles /\ models' = models)]_vars

C8_Witness ==
  /\ ret.kind = "forward" /\ remembered.kind = "forward"
  /\ ret.handle = remembered.handle /\ ret.B = remembered.B
  /\ ret.handle = "w2" /\ Len(ret.log) >= 2
  /\ "c_concat" \in DOMAIN ret.c0

\* C9: while the delegated encode runs the flag is False and the encoder is
\* an AutoencoderKL; whenever no encode is running every flag has the value
\* it had when encode was entered; the step that fails the assertion reads
\* and writes nothing.
C9_ScopedOverride ==
  /\ [](encPc = "delegate" =>
          /\ vaes[encFrame.vae].isKL
          /\ vaes[encFrame.vae].sample = FALSE
          /\ encFrame.original_sample_mode = vaes0[encFrame.vae].sample)
  /\ [](encPc = "idle" => vaes = vaes0)
  /\ [](encRet.kind = "AssertionError" => ~vaes[encRet.vae].isKL)
  /\ [][(encPc = "idle" /\ encRet' # encRet /\ ~vaes[encRet'.vae].isKL) =>
          (encRet'.kind = "AssertionError" /\ UNCHANGED <<vaes, encFrame, encPc>>)]_vars

C9_Witness ==
  /\ encPc = "idle" /\ encRet.kind = "error"
  /\ vaes[encRet.vae].sample = TRUE

\* C10: through a handle returned by an apply on a handle that an earlier
\* apply returned, the later stage runs first and the earlier second, and
\* the native forward receives the earlier apply's conditioning, broadcast;
\* the later apply's conditioning reaches it only if the two are equal.
C10_EarlierConditioningWins ==
  (ret.kind = "forward" /\ IsApplied(ret.handle) /\ IsApplied(applied[ret.handle].model)) =>
    LET outer == ret.handle
        inner == applied[ret.handle].model
        got   == ret.native[1]["c_concat"]
        bc(h) == [b \in 1..ret.B |-> ExpectedSlice(applied[h].samples, ScaleOf(h))]
    IN  /\ Len(ret.log) >= 2
        /\ ret.log[1].stage = outer /\ ret.log[1].injected = bc(outer)
        /\ ret.log[2].stage = inner /\ ret.log[2].injected = bc(inner)
        /\ got = bc(inner)
        /\ applied[outer].samples # applied[inner].samples => got # bc(outer)

C10_Witness ==
  /\ ret.kind = "forward" /\ ret.handle = "w2"
  /\ IsApplied("w2") /\ applied["w2"].model = "w1"
  /\ applied["w2"].samples # applied["w1"].samples
  /\ ret.native[1]["c_concat"] = [b \in 1..ret.B |-> StageConds("w1")[1]]

====
